---------------------------- MODULE Spec2Model ----------------------------
(***************************************************************************)
(* Microputer: a CPU emulator that loads a binary image of 16-bit          *)
(* instruction words, disassembles it into a listing and then executes it. *)
(* Model of src/Microputer/microputer.c, microputer.h and p1.c.            *)
(***************************************************************************)
EXTENDS Integers, Sequences, FiniteSets

(***************************************************************************)
(* Program constants (microputer.h, microputer.c)                          *)
(***************************************************************************)
WORD_SIZE == 2
NUM_INSTRUCTIONS == 8
NUM_REGISTERS == 16
MEM_BYTE_SIZE == 32
SUCCESS == 0
ERROR == 1
MAX_ASM_LINE_LEN == 15
\* sizeof( asm_file_buffer_p ): the size of a pointer on an LP64 build
SIZEOF_POINTER == 8
\* char mem_num[ 5 ] in write_assembly_file
MEM_NUM_LEN == 5

(***************************************************************************)
(* Bounds of the model                                                     *)
(***************************************************************************)
\* the longest image is MEM_BYTE_SIZE + ExtraBytes bytes
ExtraBytes == 1
\* number of freely chosen leading instruction words of an image
MaxProg == 2
\* the interpreter is followed for at most this many fetches
MaxFetches == 18
\* words in a short program with branches
MaxTailProg == 3

(***************************************************************************)
(* C integer arithmetic on non-negative values                             *)
(***************************************************************************)
RECURSIVE Pow2(_)
Pow2(n) == IF n = 0 THEN 1 ELSE 2 * Pow2(n - 1)

\* x << n
ShiftL(x, n) == x * Pow2(n)

\* x >> n
ShiftR(x, n) == x \div Pow2(n)

RECURSIVE BitAnd(_, _)
\* x & y
BitAnd(x, y) ==
    IF x = 0 \/ y = 0 THEN 0
    ELSE 2 * BitAnd(x \div 2, y \div 2) + (IF x % 2 = 1 /\ y % 2 = 1 THEN 1 ELSE 0)

RECURSIVE BitOr(_, _)
\* x | y
BitOr(x, y) ==
    IF x = 0 THEN y
    ELSE IF y = 0 THEN x
    ELSE 2 * BitOr(x \div 2, y \div 2) + (IF x % 2 = 1 \/ y % 2 = 1 THEN 1 ELSE 0)

RECURSIVE BitXor(_, _)
\* x ^ y
BitXor(x, y) ==
    IF x = 0 THEN y
    ELSE IF y = 0 THEN x
    ELSE 2 * BitXor(x \div 2, y \div 2) + (IF x % 2 = y % 2 THEN 0 ELSE 1)

\* (byte_t) x
ToByte(x) == x % 256

\* (uint16_t) x
ToU16(x) == x % 65536

(***************************************************************************)
(* Instruction argument extractors                                         *)
(***************************************************************************)
\* op_code = (byte_t) ((instr & (0b111 << 13)) >> 13)
OpCodeOf(instr) == ToByte(ShiftR(BitAnd(instr, ShiftL(7, 13)), 13))

ldi_extract_instr_args(instr) ==
    << ToByte(ShiftR(BitAnd(instr, ShiftL(15, 9)), 9)),
       ToByte(ShiftR(BitAnd(instr, ShiftL(255, 1)), 1)) >>

\* an extractor that takes the result register from the first field
bit_op_extract_result_first(instr) ==
    << ToByte(ShiftR(BitAnd(instr, ShiftL(7, 13)), 13)),
       ToByte(ShiftR(BitAnd(instr, ShiftL(15, 5)), 5)),
       ToByte(ShiftR(BitAnd(instr, ShiftL(15, 1)), 1)),
       ToByte(ShiftR(BitAnd(instr, ShiftL(15, 9)), 9)) >>

bit_op_extract_instr_args(instr) ==
    << ToByte(ShiftR(BitAnd(instr, ShiftL(7, 13)), 13)),
       ToByte(ShiftR(BitAnd(instr, ShiftL(15, 9)), 9)),
       ToByte(ShiftR(BitAnd(instr, ShiftL(15, 5)), 5)),
       ToByte(ShiftR(BitAnd(instr, ShiftL(15, 1)), 1)) >>

prt_extract_instr_args(instr) ==
    << ToByte(ShiftR(BitAnd(instr, ShiftL(15, 9)), 9)) >>

rdd_extract_instr_args(instr) ==
    << ToByte(ShiftR(BitAnd(instr, ShiftL(15, 9)), 9)) >>

blt_extract_instr_args(instr) ==
    << ToByte(ShiftR(BitAnd(instr, ShiftL(15, 9)), 9)),
       ToByte(ShiftR(BitAnd(instr, ShiftL(15, 5)), 5)),
       ToByte(BitAnd(instr, 31)) >>

(***************************************************************************)
(* Text: a string is a sequence of one-character strings                   *)
(***************************************************************************)
Digit(d) == <<"0", "1", "2", "3", "4", "5", "6", "7", "8", "9">>[d + 1]

RECURSIVE Dec(_)
\* printf's %d / %hu of a non-negative value
Dec(n) == IF n < 10 THEN << Digit(n) >> ELSE Dec(n \div 10) \o << Digit(n % 10) >>

\* snprintf( out, size, ... ): at most size - 1 characters are stored
Snprintf(size, text) ==
    IF Len(text) <= size - 1 THEN text ELSE SubSeq(text, 1, size - 1)

(***************************************************************************)
(* Instruction disassemblers: the text stored in the line buffer           *)
(***************************************************************************)
ldi_disassembler(instr) ==
    LET args == ldi_extract_instr_args(instr)
    IN  Snprintf(MAX_ASM_LINE_LEN,
            <<"L", "D", "I", " ", "R">> \o Dec(args[1]) \o <<" ">> \o Dec(args[2]))

\* the mnemonic chosen by the switch; <<>> stands for the default: return
BitOpName(op) ==
    CASE op = 1 -> <<"A", "D", "D">>
      [] op = 2 -> <<"A", "N", "D">>
      [] op = 3 -> <<"O", "R">>
      [] op = 4 -> <<"X", "O", "R">>
      [] OTHER -> << >>

bit_op_disassembler(instr) ==
    LET args == bit_op_extract_instr_args(instr)
    IN  IF BitOpName(args[1]) = << >> THEN << >>
        ELSE Snprintf(MAX_ASM_LINE_LEN,
                BitOpName(args[1]) \o <<" ", "R">> \o Dec(args[2])
                    \o <<" ", "R">> \o Dec(args[3]) \o <<" ", "R">> \o Dec(args[4]))

prt_disassembler(instr) ==
    LET args == prt_extract_instr_args(instr)
    IN  Snprintf(MAX_ASM_LINE_LEN, <<"P", "R", "T", " ", "R">> \o Dec(args[1]))

rdd_disassembler(instr) ==
    LET args == rdd_extract_instr_args(instr)
    IN  Snprintf(MAX_ASM_LINE_LEN, <<"R", "D", "D", " ", "R">> \o Dec(args[1]))

blt_disassembler(instr) ==
    LET args == blt_extract_instr_args(instr)
    IN  Snprintf(MAX_ASM_LINE_LEN,
            <<"B", "L", "T", " ", "R">> \o Dec(args[1]) \o <<" ", "R">> \o Dec(args[2])
                \o <<" ">> \o Dec(args[3]))

(***************************************************************************)
(* Instruction handlers.  mp is the machine a handler is given:            *)
(* [reg, mem, loaded_mem_slots, pc, ir]; the result is the machine it      *)
(* leaves, the return code and the line PRT prints (the prompt of RDD and  *)
(* the error messages are left out).                                       *)
(***************************************************************************)
Done(mp, rc, out) ==
    [reg |-> mp.reg, mem |-> mp.mem, loaded_mem_slots |-> mp.loaded_mem_slots,
     pc |-> mp.pc, rc |-> rc, out |-> out]

\* an LDI handler that loads the low byte of the word, pad bit included
ldi_handler_low_byte(mp) ==
    LET args == ldi_extract_instr_args(mp.ir)
    IN  Done([mp EXCEPT !.reg[args[1]] = ToByte(BitAnd(mp.ir, 255))], SUCCESS, << >>)

ldi_handler(mp) ==
    LET args == ldi_extract_instr_args(mp.ir)
        imm == args[2]
    IN  Done([mp EXCEPT !.reg[args[1]] = imm], SUCCESS, << >>)

bit_op_handler(mp) ==
    LET args == bit_op_extract_instr_args(mp.ir)
        op_code == args[1]
        ri == mp.reg[args[2]]
        rj == mp.reg[args[3]]
        rk == args[4]
    IN  CASE op_code = 1 -> Done([mp EXCEPT !.reg[rk] = ToByte(ri + rj)], SUCCESS, << >>)
          [] op_code = 2 -> Done([mp EXCEPT !.reg[rk] = BitAnd(ri, rj)], SUCCESS, << >>)
          [] op_code = 3 -> Done([mp EXCEPT !.reg[rk] = BitOr(ri, rj)], SUCCESS, << >>)
          [] op_code = 4 -> Done([mp EXCEPT !.reg[rk] = BitXor(ri, rj)], SUCCESS, << >>)
          [] OTHER -> Done(mp, ERROR, << >>)

\* printf( "R%hu = %hu\n", index, reg[ index ] )
prt_handler(mp) ==
    LET args == prt_extract_instr_args(mp.ir)
    IN  Done(mp, SUCCESS,
             <<"R">> \o Dec(args[1]) \o <<" ", "=", " ">> \o Dec(mp.reg[args[1]])
                 \o <<"\n">>)

\* an RDD handler that stores the value in memory as well
rdd_handler_to_mem(mp, input) ==
    LET args == rdd_extract_instr_args(mp.ir)
        v == ToByte(BitAnd(input, 255))
    IN  Done([mp EXCEPT !.reg[args[1]] = v, !.mem[args[1]] = v], SUCCESS, << >>)

\* an RDD handler that stores 255 for every value above 255
rdd_handler_saturating(mp, input) ==
    LET args == rdd_extract_instr_args(mp.ir)
    IN  Done([mp EXCEPT !.reg[args[1]] = IF input > 255 THEN 255 ELSE input],
             SUCCESS, << >>)

\* input is the unsigned int scanf stored (0 when nothing was converted)
rdd_handler(mp, input) ==
    LET args == rdd_extract_instr_args(mp.ir)
    IN  Done([mp EXCEPT !.reg[args[1]] = ToByte(BitAnd(input, 255))], SUCCESS, << >>)

\* a BLT handler that branches without the word-boundary check
blt_handler_unchecked(mp) ==
    LET args == blt_extract_instr_args(mp.ir)
    IN  IF mp.reg[args[1]] < mp.reg[args[2]]
        THEN Done([mp EXCEPT !.pc = args[3]], SUCCESS, << >>)
        ELSE Done(mp, SUCCESS, << >>)

\* a BLT handler that compares the registers as signed 8-bit values
blt_handler_signed(mp) ==
    LET args == blt_extract_instr_args(mp.ir)
        Signed(v) == IF v >= 128 THEN v - 256 ELSE v
        addr == args[3]
    IN  IF Signed(mp.reg[args[1]]) < Signed(mp.reg[args[2]])
        THEN IF addr % 2 # 0
             THEN Done(mp, ERROR, << >>)
             ELSE Done([mp EXCEPT !.pc = addr], SUCCESS, << >>)
        ELSE Done(mp, SUCCESS, << >>)

blt_handler(mp) ==
    LET args == blt_extract_instr_args(mp.ir)
        ri == mp.reg[args[1]]
        rj == mp.reg[args[2]]
        addr == args[3]
    IN  IF ri < rj
        THEN IF addr % 2 # 0
             THEN Done(mp, ERROR, << >>)
             ELSE Done([mp EXCEPT !.pc = addr], SUCCESS, << >>)
        ELSE Done(mp, SUCCESS, << >>)

\* the indices at which the handler of word instr accesses reg
RegIndices(instr) ==
    LET op == OpCodeOf(instr)
    IN  CASE op = 0 -> {ldi_extract_instr_args(instr)[1]}
          [] op \in 1 .. 4 ->
                LET args == bit_op_extract_instr_args(instr)
                IN  {args[2], args[3], args[4]}
          [] op = 5 -> {prt_extract_instr_args(instr)[1]}
          [] op = 6 -> {rdd_extract_instr_args(instr)[1]}
          [] op = 7 ->
                LET args == blt_extract_instr_args(instr)
                IN  {args[1], args[2]}

(***************************************************************************)
(* Instruction table                                                       *)
(***************************************************************************)
OpCodes == 0 .. (NUM_INSTRUCTIONS - 1)

\* the table after memset( *out_mp_pp, 0, ... ): every pointer is NULL
EmptyInstrSet == [op \in OpCodes |-> [handler |-> "NULL", disassembler |-> "NULL"]]

\* a table whose entry for opcode 5 holds the handler of ADD, AND, OR, XOR
InstructionSetPrtMiswired ==
    [op \in OpCodes |->
        CASE op = 0 -> [disassembler |-> "ldi_disassembler", handler |-> "ldi_handler"]
          [] op \in 1 .. 4 ->
                [disassembler |-> "bit_op_disassembler", handler |-> "bit_op_handler"]
          [] op = 5 -> [disassembler |-> "prt_disassembler", handler |-> "bit_op_handler"]
          [] op = 6 -> [disassembler |-> "rdd_disassembler", handler |-> "rdd_handler"]
          [] op = 7 -> [disassembler |-> "blt_disassembler", handler |-> "blt_handler"]]

InstructionSet ==
    [op \in OpCodes |->
        CASE op = 0 -> [disassembler |-> "ldi_disassembler", handler |-> "ldi_handler"]
          [] op \in 1 .. 4 ->
                [disassembler |-> "bit_op_disassembler", handler |-> "bit_op_handler"]
          [] op = 5 -> [disassembler |-> "prt_disassembler", handler |-> "prt_handler"]
          [] op = 6 -> [disassembler |-> "rdd_disassembler", handler |-> "rdd_handler"]
          [] op = 7 -> [disassembler |-> "blt_disassembler", handler |-> "blt_handler"]]

\* (*instr_set[ op_code ].disassembler)( instr, line )
CallDisassembler(d, instr) ==
    CASE d = "ldi_disassembler" -> ldi_disassembler(instr)
      [] d = "bit_op_disassembler" -> bit_op_disassembler(instr)
      [] d = "prt_disassembler" -> prt_disassembler(instr)
      [] d = "rdd_disassembler" -> rdd_disassembler(instr)
      [] d = "blt_disassembler" -> blt_disassembler(instr)
      [] OTHER -> << >>

\* (*instr_set[ op_code ].handler)( mp_p )
CallHandler(h, mp, input) ==
    CASE h = "ldi_handler" -> ldi_handler(mp)
      [] h = "bit_op_handler" -> bit_op_handler(mp)
      [] h = "prt_handler" -> prt_handler(mp)
      [] h = "rdd_handler" -> rdd_handler(mp, input)
      [] h = "blt_handler" -> blt_handler(mp)
      [] OTHER -> Done(mp, ERROR, << >>)

(***************************************************************************)
(* Loading and disassembling                                               *)
(***************************************************************************)
\* bytes malloc'ed for the line buffer:
\* sizeof( asm_file_buffer_p ) * (MEM_BYTE_SIZE / WORD_SIZE)
AsmBufferBytes == SIZEOF_POINTER * (MEM_BYTE_SIZE \div WORD_SIZE)

ZeroMem == [i \in 0 .. (MEM_BYTE_SIZE - 1) |-> 0]
ZeroReg == [i \in 0 .. (NUM_REGISTERS - 1) |-> 0]

\* instr = mem[ hi ] << 8; instr |= mem[ lo ];
WordAt(m, hi, lo) == BitOr(ToU16(ShiftL(m[hi], 8)), m[lo])

RECURSIVE LoadLoop(_, _, _)
(* The while loop of disassemble_micro_program.  st.counter is counter,    *)
(* st.mem the machine's memory, st.lines the texts stored in the line      *)
(* buffer (line k at index k + 1), st.ops the opcode each line was         *)
(* dispatched on, st.stored the offsets from mem at which fread stored a   *)
(* byte, st.line_end the highest byte offset of the line buffer written,   *)
(* st.null_call whether a NULL disassembler pointer was called.            *)
LoadLoop(image, table, st) ==
    IF st.counter + 1 > Len(image)
    THEN st                                      \* fread returned 0
    ELSE LET c == st.counter
             \* fread stores the byte before counter < MEM_BYTE_SIZE is tested
             m == IF c < MEM_BYTE_SIZE THEN [st.mem EXCEPT ![c] = image[c + 1]]
                                       ELSE st.mem
             st1 == [st EXCEPT !.mem = m, !.stored = @ \cup {c}]
         IN  IF ~(c < MEM_BYTE_SIZE) THEN st1
             ELSE IF (c + 1) % 2 = 0
             THEN LET instr == WordAt(m, c - 1, c)
                      op == OpCodeOf(instr)
                      text == CallDisassembler(table[op].disassembler, instr)
                      \* the line and its terminating NUL, stored at slot c / 2
                      last == (c \div 2) * MAX_ASM_LINE_LEN + Len(text) + 1
                  IN  IF table[op].disassembler = "NULL"
                      THEN [st1 EXCEPT !.ops = Append(@, op), !.null_call = TRUE]
                      ELSE LoadLoop(image, table,
                              [st1 EXCEPT !.counter = c + 1,
                                          !.lines = Append(@, text),
                                          !.ops = Append(@, op),
                                          !.line_end = IF last > @ THEN last ELSE @])
             ELSE LoadLoop(image, table, [st1 EXCEPT !.counter = c + 1])

LoadStart(m) ==
    [counter |-> 0, mem |-> m, lines |-> << >>, ops |-> << >>, stored |-> {},
     line_end |-> 0, null_call |-> FALSE]

\* the value a successful fputs returns (glibc)
FPUTS_OK == 1
\* EOF
FPUTS_EOF == -1

\* snprintf( mem_num, 5, "%d: ", i * 2 )
MemNum(i) == Snprintf(MEM_NUM_LEN, Dec(i * 2) \o <<":", " ">>)

RECURSIVE WriteLoopBreakAfterEach(_, _, _, _)
\* a write loop that ends every line, the last one too, with a line break
WriteLoopBreakAfterEach(buffer, lines, i, content) ==
    IF ~(i < lines) THEN content
    ELSE WriteLoopBreakAfterEach(buffer, lines, i + 1,
            content \o MemNum(i) \o buffer[i + 1] \o <<"\n">>)

RECURSIVE WriteLoop(_, _, _, _)
\* the while loop of write_assembly_file with every fputs succeeding:
\* the characters written to the file
WriteLoop(buffer, lines, i, content) ==
    IF ~(i < lines) THEN content
    ELSE WriteLoop(buffer, lines, i + 1,
            content \o MemNum(i) \o buffer[i + 1]
                    \o (IF i < lines - 1 THEN <<"\n">> ELSE << >>))

(* write_assembly_file.  write_ok: whether fputs succeeds.  The result is  *)
(* the file's content and the value returned.                              *)
write_assembly_file(buffer, lines, write_ok) ==
    IF lines = 0 THEN [content |-> << >>, result |-> SUCCESS]
    ELSE IF write_ok
    THEN [content |-> WriteLoop(buffer, lines, 0, << >>), result |-> FPUTS_OK]
    ELSE [content |-> << >>, result |-> FPUTS_EOF]

(***************************************************************************)
(* Inputs explored                                                         *)
(***************************************************************************)
\* ADD R1 R1 R1, PRT R1, RDD R1, BLT R0 R1 0, BLT R0 R1 3, BLT R0 R1 30;
\* the zero bytes that follow them in an image are LDI R0 0
Words == {8738, 41472, 49664, 57376, 57379, 57406}

\* values scanf stores for RDD (0 also stands for an input that is no number)
Inputs == {0, 7, 300}

MaxImageLen == MEM_BYTE_SIZE + ExtraBytes

\* the two bytes of a word in the image, high-order byte first
WordBytes(w) == << w \div 256, w % 256 >>

RECURSIVE ProgBytes(_)
ProgBytes(prog) ==
    IF prog = << >> THEN << >> ELSE WordBytes(Head(prog)) \o ProgBytes(Tail(prog))

\* the first len bytes of the program followed by zero bytes
ImageOf(prog, len) ==
    [i \in 1 .. len |-> IF i <= 2 * Len(prog) THEN ProgBytes(prog)[i] ELSE 0]

Images == { ImageOf(prog, len) : prog \in [1 .. MaxProg -> Words], len \in 0 .. MaxImageLen }

(***************************************************************************)
(* State                                                                   *)
(***************************************************************************)
VARIABLES
    stage,              \* where start() is
    result,             \* start's local result
    mp_p,               \* start's pointer: "NULL" or "mp"
    instr_set, reg, mem, loaded_mem_slots, pc, ir,     \* microputer_t
    image,              \* the bytes of the binary file
    listing,            \* the characters of the .asm file
    write_result,       \* what write_assembly_file returned
    asm_state,          \* "none", or how the writing of the listing ended
    stored,             \* offsets from mem at which the load stored a byte
    dis_ops,            \* the opcode each listing line was dispatched on
    line_end,           \* bytes of the line buffer the disassemblers wrote
    null_handle_ops,    \* the stdio calls made on a FILE pointer that is NULL
    held,               \* what disassemble_micro_program acquired and still holds
    op_code,            \* execute_micro_program's local op_code
    handler_rc,         \* what the last handler returned
    reg_before,         \* the registers when the last instruction was fetched
    console,            \* the line the last handler printed
    rdd_input,          \* the value scanf stored for the last RDD
    fetches,            \* number of instruction fetches so far
    fetch_at,           \* the PC the last fetch started at
    branched,           \* whether a BLT has overwritten the PC
    calls,              \* the functions start() has called, in order
    aborted,            \* the stages that returned a failure
    exit_status         \* what main returned; -1 while the process runs

vars == << stage, result, mp_p, instr_set, reg, mem, loaded_mem_slots, pc, ir,
           image, listing, write_result, asm_state, stored, dis_ops, line_end,
           null_handle_ops, held, op_code,
           handler_rc, reg_before, console, rdd_input, fetches, fetch_at, branched,
           calls, aborted, exit_status >>

machine == << instr_set, reg, mem, loaded_mem_slots, pc, ir >>
files == << image, listing, write_result, asm_state, stored, dis_ops, line_end,
           null_handle_ops, held >>
interp == << op_code, handler_rc, reg_before, console, rdd_input, fetches, fetch_at,
            branched >>
run == << calls, aborted, exit_status >>

Init ==
    /\ stage = "start"
    /\ result = SUCCESS
    /\ mp_p = "NULL"
    /\ instr_set = EmptyInstrSet
    /\ reg = ZeroReg
    /\ mem = ZeroMem
    /\ loaded_mem_slots = 0
    /\ pc = 0
    /\ ir = 0
    /\ image = << >>
    /\ listing = << >>
    /\ write_result = SUCCESS
    /\ asm_state = "none"
    /\ stored = {}
    /\ dis_ops = << >>
    /\ line_end = 0
    /\ null_handle_ops = {}
    /\ held = {}
    /\ op_code = 0
    /\ handler_rc = SUCCESS
    /\ reg_before = ZeroReg
    /\ console = << >>
    /\ rdd_input = 0
    /\ fetches = 0
    /\ fetch_at = -1
    /\ branched = FALSE
    /\ calls = << >>
    /\ aborted = {}
    /\ exit_status = -1

(***************************************************************************)
(* start(): create                                                         *)
(***************************************************************************)
\* create_microputer; malloc_ok: whether malloc returned memory
CreateMicroputer(malloc_ok) ==
    /\ stage = "start"
    /\ IF malloc_ok
       THEN /\ mp_p' = "mp"
            /\ instr_set' = EmptyInstrSet
            /\ reg' = ZeroReg
            /\ mem' = ZeroMem
            /\ loaded_mem_slots' = 0
            /\ pc' = 0
            /\ ir' = 0
            /\ result' = SUCCESS
            /\ stage' = "created"
            /\ UNCHANGED aborted
       ELSE /\ result' = ERROR
            /\ stage' = "create_failed"
            /\ aborted' = aborted \cup {"create"}
            /\ UNCHANGED << mp_p, machine >>
    /\ calls' = Append(calls, "create_microputer")
    /\ UNCHANGED << files, interp, exit_status >>

CreateInstructionSet ==
    /\ stage = "created"
    /\ instr_set' = InstructionSet
    /\ stage' = "ready"
    /\ calls' = Append(calls, "create_instruction_set")
    /\ UNCHANGED << result, mp_p, reg, mem, loaded_mem_slots, pc, ir, files, interp,
                    aborted, exit_status >>

(***************************************************************************)
(* start(): load and disassemble                                           *)
(***************************************************************************)
\* what undefined behaviour of the step leads to
UbOutcomes == {"benign", "crash_before_write", "crash_after_write"}

\* how the listing file behaves
AsmOutcomes(img) ==
    IF Len(img) <= 2 * MaxProg THEN {"ok", "open_fails", "write_fails"} ELSE {"ok"}

\* a start() that goes on to execute after the load failed
DisassembleNoInputIgnored(ub) ==
    /\ stage = "ready"
    /\ IF ub = "benign"
       THEN /\ result' = ERROR
            /\ stage' = "loaded"
            /\ aborted' = aborted \cup {"load"}
       ELSE /\ stage' = "crashed"
            /\ UNCHANGED << result, aborted >>
    /\ calls' = Append(calls, "disassemble_micro_program")
    /\ null_handle_ops' = {"fclose"}
    /\ held' = IF ub = "benign" THEN {} ELSE {"asm_file_buffer_p"}
    /\ UNCHANGED << mp_p, machine, image, listing, write_result, asm_state, stored,
                    dis_ops, line_end, interp, exit_status >>

(* disassemble_micro_program when fopen of the binary file returns NULL:   *)
(* result = ERROR, then at EXIT_FUNC fclose( NULL ), which is undefined,   *)
(* and free( asm_file_buffer_p ).                                          *)
DisassembleNoInput(ub) ==
    /\ stage = "ready"
    /\ IF ub = "benign"
       THEN /\ result' = ERROR
            /\ stage' = "load_failed"
            /\ aborted' = aborted \cup {"load"}
       ELSE /\ stage' = "crashed"
            /\ UNCHANGED << result, aborted >>
    /\ calls' = Append(calls, "disassemble_micro_program")
    /\ null_handle_ops' = {"fclose"}
    /\ held' = IF ub = "benign" THEN {} ELSE {"asm_file_buffer_p"}
    /\ UNCHANGED << mp_p, machine, image, listing, write_result, asm_state, stored,
                    dis_ops, line_end, interp, exit_status >>

\* a load step that keeps the last decoded word in IR
MachineAfterLoadIrUsed(mp, st) ==
    [mp EXCEPT !.mem = st.mem, !.pc = 0, !.loaded_mem_slots = ToByte(st.counter),
               !.ir = IF st.counter >= 2 THEN WordAt(st.mem, 0, 1) ELSE @]

(* The fields of the machine mp once disassemble_micro_program has loaded  *)
(* the image: the bytes fread stored, and                                  *)
(* mp_p->pc = 0; mp_p->loaded_mem_slots = counter;                         *)
MachineAfterLoad(mp, st) ==
    [mp EXCEPT !.mem = st.mem, !.pc = 0, !.loaded_mem_slots = ToByte(st.counter)]

(* The stdio calls write_assembly_file makes on file_p when fopen of the    *)
(* listing returned NULL: file_p is never tested, so every line is given   *)
(* to fputs and the function ends with fclose( file_p ); a process that    *)
(* dies in the first fputs never reaches the fclose.                       *)
NullFileOps(asm_io, lines, ub) ==
    IF asm_io # "open_fails" THEN {}
    ELSE IF lines = 0 THEN {"fclose"}
    ELSE IF ub = "crash_before_write" THEN {"fputs"}
    ELSE {"fputs", "fclose"}

(* disassemble_micro_program on a binary file holding img.  asm_io: how    *)
(* the listing file behaves.  Writing a line past the end of the line      *)
(* buffer, and fputs or fclose on a NULL FILE, are undefined: ub chooses   *)
(* what follows.                                                           *)
Disassemble(img) ==
    /\ stage = "ready"
    /\ \E st \in {LoadLoop(img, instr_set, LoadStart(mem))} :
       \E asm_io \in AsmOutcomes(img) :
       \E ub \in (IF st.line_end > AsmBufferBytes \/ asm_io = "open_fails"
                  THEN UbOutcomes ELSE {"benign"}) :
       \E w \in {write_assembly_file(st.lines, st.counter \div 2, asm_io = "ok")} :
            /\ image' = img
            /\ stored' = st.stored
            /\ dis_ops' = st.ops
            /\ line_end' = st.line_end
            /\ null_handle_ops' = NullFileOps(asm_io, st.counter \div 2, ub)
            /\ held' = IF st.null_call \/ ub # "benign"
                       THEN {"file_p", "asm_file_buffer_p"} ELSE {}
            /\ IF st.null_call \/ ub = "crash_before_write"
               THEN \* the process died before write_assembly_file wrote
                    /\ stage' = "crashed"
                    /\ UNCHANGED << result, machine, listing, write_result, asm_state >>
               ELSE /\ \E after \in {MachineAfterLoad(
                                [reg |-> reg, mem |-> mem, pc |-> pc, ir |-> ir,
                                 loaded_mem_slots |-> loaded_mem_slots], st)} :
                           /\ mem' = after.mem
                           /\ pc' = after.pc
                           /\ loaded_mem_slots' = after.loaded_mem_slots
                           /\ reg' = after.reg
                           /\ ir' = after.ir
                    /\ listing' = IF asm_io = "open_fails" THEN listing ELSE w.content
                    /\ write_result' = IF asm_io = "open_fails" /\ st.counter \div 2 > 0
                                       THEN FPUTS_EOF ELSE w.result
                    /\ asm_state' = CASE asm_io = "ok" -> "written"
                                      [] asm_io = "open_fails" -> "open_failed"
                                      [] asm_io = "write_fails" -> "write_failed"
                    /\ IF ub = "crash_after_write"
                       THEN /\ stage' = "crashed"
                            /\ UNCHANGED result
                       ELSE /\ stage' = "loaded"
                            /\ result' = SUCCESS
                    /\ UNCHANGED instr_set
    /\ calls' = Append(calls, "disassemble_micro_program")
    /\ UNCHANGED << mp_p, interp, aborted, exit_status >>

(***************************************************************************)
(* start(): execute                                                        *)
(***************************************************************************)
\* mem[ i ] read by the fetch
MemAt(m, i) == IF i \in DOMAIN m THEN m[i] ELSE 0

\* a fetch that takes the first byte as the low-order byte
FetchLowByteFirst(m, at) == BitOr(ToU16(ShiftL(MemAt(m, at + 1), 8)), MemAt(m, at))

\* mp_p->ir = mp_p->mem[ mp_p->pc++ ] << 8; mp_p->ir |= mp_p->mem[ mp_p->pc++ ];
Fetch(m, at) == BitOr(ToU16(ShiftL(MemAt(m, at), 8)), MemAt(m, at + 1))

\* a loop body that advances PC by 2 only after the handler has returned
FetchExecuteAdvanceAfter(table, m, mp, input) ==
    LET word == Fetch(m, mp.pc)
        op == OpCodeOf(word)
        h == table[op].handler
        r == CallHandler(h, [reg |-> mp.reg, mem |-> m,
                             loaded_mem_slots |-> mp.loaded_mem_slots,
                             pc |-> mp.pc, ir |-> word], input)
    IN  [ir |-> word, op_code |-> op, next_pc |-> ToU16(mp.pc + 2), handler |-> h,
         reg |-> r.reg, mem |-> r.mem, loaded_mem_slots |-> r.loaded_mem_slots,
         pc |-> ToU16(r.pc + 2), rc |-> r.rc, out |-> r.out]

(* The body of the do-while loop of execute_micro_program on machine mp:   *)
(* the fetch, the dispatch and the handler's effect.                       *)
FetchExecute(table, m, mp, input) ==
    LET word == Fetch(m, mp.pc)
        next_pc == ToU16(mp.pc + 2)
        op == OpCodeOf(word)
        h == table[op].handler
        r == CallHandler(h, [reg |-> mp.reg, mem |-> m,
                             loaded_mem_slots |-> mp.loaded_mem_slots,
                             pc |-> next_pc, ir |-> word], input)
    IN  [ir |-> word, op_code |-> op, next_pc |-> next_pc, handler |-> h,
         reg |-> r.reg, mem |-> r.mem, loaded_mem_slots |-> r.loaded_mem_slots,
         pc |-> r.pc, rc |-> r.rc, out |-> r.out]

\* a loop condition that also continues at PC = loaded size
LoopContinuesAtEnd(p, loaded) == p <= loaded

\* a loop condition that tests PC against the size of the memory, inclusive
LoopContinuesWithinMemory(p, loaded) == p <= MEM_BYTE_SIZE

\* while (mp_p->pc < mp_p->loaded_mem_slots)
LoopContinues(p, loaded) == p < loaded

\* a test of the handler's return value that never sees a failure
HandlerFailedNever(rc) == FALSE

\* if ((*mp_p->instr_set[ op_code ].handler)( mp_p ) != SUCCESS)
HandlerFailed(rc) == rc # SUCCESS

(* One iteration of the do-while loop of execute_micro_program: fetch,     *)
(* dispatch, and the test of the loop condition.  The first iteration      *)
(* starts when start() calls execute_micro_program (stage "loaded").       *)
ExecStep(input) ==
    /\ stage \in {"loaded", "running"}
    /\ fetches < MaxFetches
    /\ \E r \in {FetchExecute(instr_set, mem,
                    [reg |-> reg, pc |-> pc, loaded_mem_slots |-> loaded_mem_slots],
                    input)} :
           /\ ir' = r.ir
           /\ op_code' = r.op_code
           /\ fetch_at' = pc
           /\ reg_before' = reg
           /\ fetches' = fetches + 1
           /\ rdd_input' = IF r.handler = "rdd_handler" THEN input ELSE rdd_input
           /\ calls' = IF stage = "loaded" THEN Append(calls, "execute_micro_program")
                                           ELSE calls
           /\ IF r.handler = "NULL"
              THEN /\ stage' = "crashed"
                   /\ pc' = r.next_pc
                   /\ UNCHANGED << reg, mem, loaded_mem_slots, result, handler_rc,
                                  console, branched, aborted >>
              ELSE /\ reg' = r.reg
                   /\ mem' = r.mem
                   /\ loaded_mem_slots' = r.loaded_mem_slots
                   /\ pc' = r.pc
                   /\ handler_rc' = r.rc
                   /\ console' = r.out
                   /\ branched' = (branched \/ r.pc # r.next_pc)
                   /\ IF HandlerFailed(r.rc)
                      THEN /\ result' = ERROR
                           /\ stage' = "executed"
                           /\ aborted' = aborted \cup {"execute"}
                      ELSE IF LoopContinues(r.pc, r.loaded_mem_slots)
                      THEN /\ stage' = "running"
                           /\ UNCHANGED << result, aborted >>
                      ELSE /\ result' = SUCCESS
                           /\ stage' = "executed"
                           /\ UNCHANGED aborted
    /\ UNCHANGED << mp_p, instr_set, files, exit_status >>

(***************************************************************************)
(* start(): teardown                                                       *)
(***************************************************************************)
\* FUNC_EXIT: result = delete_microputer( &mp_p ); return result;
DeleteMicroputer ==
    /\ stage \in {"create_failed", "load_failed", "executed"}
    /\ IF mp_p # "NULL"
       THEN /\ mp_p' = "NULL"
            /\ result' = SUCCESS
       ELSE /\ result' = ERROR
            /\ UNCHANGED mp_p
    /\ stage' = "returned"
    /\ calls' = Append(calls, "delete_microputer")
    /\ UNCHANGED << machine, files, interp, aborted, exit_status >>

(***************************************************************************)
(* main()                                                                  *)
(***************************************************************************)
(* main after start() has returned.  with_args: the command line named     *)
(* the two files, and main returns start's result; otherwise the run was   *)
(* one of run_default_tests, whose result main does not keep.              *)
MainReturn(with_args) ==
    /\ stage = "returned"
    /\ stage' = "exited"
    /\ exit_status' = IF with_args THEN result ELSE SUCCESS
    /\ UNCHANGED << result, mp_p, machine, files, interp, calls, aborted >>

Next ==
    \/ \E malloc_ok \in BOOLEAN : CreateMicroputer(malloc_ok)
    \/ CreateInstructionSet
    \/ \E ub \in UbOutcomes : DisassembleNoInput(ub)
    \/ /\ stage = "ready"
       /\ \E img \in Images : Disassemble(img)
    \/ \E input \in Inputs : ExecStep(input)
    \/ DeleteMicroputer
    \/ \E with_args \in BOOLEAN : MainReturn(with_args)

Spec == Init /\ [][Next]_vars

(***************************************************************************)
(* Single instructions: the machine has loaded a three-word image, two LDI *)
(* that set the registers the third word reads and the word under test,    *)
(* and has executed the two LDI.                                           *)
(***************************************************************************)
\* register indices and immediates the words under test are built from
UnitFields == {0, 3, 10, 15}
UnitImms == {0, 1, 85, 128, 200, 255}

\* values the two source registers hold
UnitPairs == { <<250, 10>>, <<1, 5>>, <<5, 1>>, <<7, 7>> }

\* LDI words: opcode 0, Ri, immediate, pad bit
UnitLdiWords ==
    { ri * 512 + imm * 2 + pad : ri \in UnitFields, imm \in UnitImms, pad \in {0, 1} }

\* ADD, AND, OR, XOR words: opcode, three register fields, pad bit
UnitBitOpWords ==
    { op * 8192 + a * 512 + b * 32 + (c[1] * 2 + c[2]) :
        op \in 1 .. 4, a \in UnitFields, b \in UnitFields, c \in UnitFields \X {0, 1} }

\* BLT words: opcode 7, two register fields, every 5-bit address
UnitBltWords ==
    { 7 * 8192 + ri * 512 + rj * 32 + addr :
        ri \in UnitFields, rj \in UnitFields, addr \in 0 .. 31 }

\* PRT and RDD words: opcode 5 or 6, one register field, the nine unused bits
\* all zero or all one
UnitPrtRddWords ==
    { op * 8192 + ri * 512 + rest : op \in {5, 6}, ri \in UnitFields, rest \in {0, 511} }

UnitWords == UnitLdiWords \cup UnitBitOpWords \cup UnitBltWords \cup UnitPrtRddWords

\* the image LDI Ra vi; LDI Rb vj; w, for a and b the fields of w at bits
\* 12..9 and 8..5
UnitImage(w, vi, vj) ==
    ImageOf(<< ((w \div 512) % 16) * 512 + vi * 2, ((w \div 32) % 16) * 512 + vj * 2, w >>, 6)

(* The state after start() has created the machine, loaded the image and   *)
(* executed its first two instructions.                                    *)
InitUnit ==
    \E word \in UnitWords : \E pair \in UnitPairs :
    \E img \in {UnitImage(word, pair[1], pair[2])} :
    \E st \in {LoadLoop(img, InstructionSet, LoadStart(ZeroMem))} :
    \E w \in {write_assembly_file(st.lines, st.counter \div 2, TRUE)} :
    \E s1 \in {FetchExecute(InstructionSet, st.mem,
                    [reg |-> ZeroReg, pc |-> 0, loaded_mem_slots |-> ToByte(st.counter)], 0)} :
    \E s2 \in {FetchExecute(InstructionSet, s1.mem,
                    [reg |-> s1.reg, pc |-> s1.pc,
                     loaded_mem_slots |-> s1.loaded_mem_slots], 0)} :
        /\ stage = "running"
        /\ result = SUCCESS
        /\ mp_p = "mp"
        /\ instr_set = InstructionSet
        /\ reg = s2.reg
        /\ mem = s2.mem
        /\ loaded_mem_slots = s2.loaded_mem_slots
        /\ pc = s2.pc
        /\ ir = s2.ir
        /\ image = img
        /\ listing = w.content
        /\ write_result = w.result
        /\ asm_state = "written"
        /\ stored = st.stored
        /\ dis_ops = st.ops
        /\ line_end = st.line_end
        /\ null_handle_ops = {}
        /\ held = {}
        /\ op_code = s2.op_code
        /\ handler_rc = s2.rc
        /\ reg_before = s1.reg
        /\ console = s2.out
        /\ rdd_input = 0
        /\ fetches = 2
        /\ fetch_at = 2
        /\ branched = FALSE
        /\ calls = << "create_microputer", "create_instruction_set",
                      "disassemble_micro_program", "execute_micro_program" >>
        /\ aborted = {}
        /\ exit_status = -1

NextUnit == \E input \in Inputs : ExecStep(input)

SpecUnit == InitUnit /\ [][NextUnit]_vars

(***************************************************************************)
(* Short programs with branches: the machine has loaded an image of up to  *)
(* MaxTailProg words, whose last word may be cut after its first byte, and *)
(* start() is about to call execute_micro_program.                         *)
(***************************************************************************)
\* LDI R8 5, RDD R8, PRT R8, BLT R0 R8 0, BLT R0 R8 2, BLT R0 R8 3,
\* BLT R0 R8 4, BLT R0 R8 6
TailWords == {4106, 53248, 45056, 57600, 57602, 57603, 57604, 57606}

TailImages ==
    { ImageOf(prog, len) : prog \in [1 .. MaxTailProg -> TailWords],
                           len \in 0 .. (2 * MaxTailProg) }

InitTail ==
    \E img \in TailImages :
    \E st \in {LoadLoop(img, InstructionSet, LoadStart(ZeroMem))} :
    \E w \in {write_assembly_file(st.lines, st.counter \div 2, TRUE)} :
    \E after \in {MachineAfterLoad(
                    [reg |-> ZeroReg, mem |-> ZeroMem, pc |-> 0, ir |-> 0,
                     loaded_mem_slots |-> 0], st)} :
        /\ stage = "loaded"
        /\ result = SUCCESS
        /\ mp_p = "mp"
        /\ instr_set = InstructionSet
        /\ reg = after.reg
        /\ mem = after.mem
        /\ loaded_mem_slots = after.loaded_mem_slots
        /\ pc = after.pc
        /\ ir = after.ir
        /\ image = img
        /\ listing = w.content
        /\ write_result = w.result
        /\ asm_state = "written"
        /\ stored = st.stored
        /\ dis_ops = st.ops
        /\ line_end = st.line_end
        /\ null_handle_ops = {}
        /\ held = {}
        /\ op_code = 0
        /\ handler_rc = SUCCESS
        /\ reg_before = ZeroReg
        /\ console = << >>
        /\ rdd_input = 0
        /\ fetches = 0
        /\ fetch_at = -1
        /\ branched = FALSE
        /\ calls = << "create_microputer", "create_instruction_set",
                      "disassemble_micro_program" >>
        /\ aborted = {}
        /\ exit_status = -1

NextTail == \E input \in Inputs : ExecStep(input)

SpecTail == InitTail /\ [][NextTail]_vars

(***************************************************************************)
(* Properties of the interpreter loop                                      *)
(***************************************************************************)
\* the image is one the claims speak of: 0 to 32 bytes
SmallImage == Len(image) <= MEM_BYTE_SIZE

\* execute_micro_program has returned SUCCESS
HaltedNormally == stage = "executed" /\ handler_rc = SUCCESS

(* C1 as stated: for an image of 0 to 32 bytes every fetch starts at a PC  *)
(* below the loaded size and reads both of its bytes from offsets below    *)
(* the loaded size.                                                        *)
C1_FetchBelowLoadedSize ==
    (SmallImage /\ fetches > 0) =>
        /\ fetch_at < loaded_mem_slots
        /\ fetch_at + 1 < loaded_mem_slots

\* the image holds n whole words, 1 <= n <= 16
WholeWords == SmallImage /\ Len(image) >= 2 /\ Len(image) % 2 = 0

(* C2 as stated: an image of 2n bytes, 1 <= n <= 16, in which no branch is *)
(* taken halts after exactly n fetches with PC = 2n, and execution halts   *)
(* only when PC >= loaded size.                                            *)
C2_HaltsAfterNFetches ==
    /\ (stage = "executed" /\ WholeWords /\ ~branched)
         => (fetches = Len(image) \div 2 /\ pc = Len(image))
    /\ (stage = "executed" /\ WholeWords) => pc >= loaded_mem_slots

(* C2 amended: an image of 2n bytes, 1 <= n <= 16, in which no branch is   *)
(* taken and no instruction fails halts after exactly n fetches with       *)
(* PC = 2n; after an instruction that succeeded, execution continues       *)
(* exactly when PC < loaded size, so a run in which no instruction fails   *)
(* halts only when PC >= loaded size; a failing instruction halts it at    *)
(* once with ERROR.                                                        *)
C2_HaltsAfterNFetchesUnlessError ==
    /\ (HaltedNormally /\ WholeWords /\ ~branched)
         => (fetches = Len(image) \div 2 /\ pc = Len(image))
    /\ (stage \in {"running", "executed"} /\ WholeWords /\ handler_rc = SUCCESS)
         => (stage = "running" <=> pc < loaded_mem_slots)
    /\ (stage \in {"running", "executed"} /\ WholeWords /\ handler_rc # SUCCESS)
         => (stage = "executed" /\ result = ERROR)

\* a 32-byte image ran its 16 instructions without a branch and halted
C2_Witness ==
    HaltedNormally /\ Len(image) = MEM_BYTE_SIZE /\ ~branched /\ fetches = 16

(* C5: in every state between instruction fetches, running or halted, PC   *)
(* is even.                                                                *)
C5_PcAlwaysEven == pc % 2 = 0

\* the interpreter goes on after a taken branch
C5_Witness == stage = "running" /\ branched /\ op_code = 7 /\ fetches > 2

(* C6 as stated: PC never exceeds the loaded size.                         *)
C6_PcWithinLoadedSize == SmallImage => pc <= loaded_mem_slots

(***************************************************************************)
(* Properties of the dispatch and of the listing                           *)
(***************************************************************************)
\* bits 15..13 of a 16-bit word
TopThreeBits(w) == w \div 8192

\* the k-th word of the image, first byte high-order
ImageWord(k) == 256 * image[2 * k - 1] + image[2 * k]

(* C9: every listing line was dispatched on bits 15..13 of its word, every *)
(* executed instruction on bits 15..13 of the fetched word, an instruction *)
(* that was both disassembled and executed used the same opcode on both    *)
(* paths, and the table entry dispatched on has both behaviours populated. *)
C9_SameOpcodeBothPaths ==
    /\ \A k \in 1 .. Len(dis_ops) :
          /\ dis_ops[k] = TopThreeBits(ImageWord(k))
          /\ instr_set[dis_ops[k]].disassembler # "NULL"
          /\ instr_set[dis_ops[k]].handler # "NULL"
    /\ fetches > 0 =>
          /\ op_code = TopThreeBits(ir)
          /\ instr_set[op_code].handler # "NULL"
          /\ instr_set[op_code].disassembler # "NULL"
          /\ (fetch_at \div 2) + 1 <= Len(dis_ops) =>
                /\ ir = ImageWord((fetch_at \div 2) + 1)
                /\ op_code = dis_ops[(fetch_at \div 2) + 1]

\* the second word of the image, a BLT, was disassembled and then executed
C9_Witness ==
    /\ fetches > 0
    /\ fetch_at = 2
    /\ Len(dis_ops) >= 2
    /\ op_code = 7
    /\ dis_ops[2] = 7

RECURSIVE FirstBreak(_, _)
\* the position of the first line break of t at or after i; 0 when there is none
FirstBreak(t, i) ==
    IF i > Len(t) THEN 0
    ELSE IF t[i] = "\n" THEN i
    ELSE FirstBreak(t, i + 1)

RECURSIVE SplitLines(_)
\* the pieces of t between its line breaks
SplitLines(t) ==
    LET b == FirstBreak(t, 1)
    IN  IF b = 0 THEN << t >>
        ELSE << SubSeq(t, 1, b - 1) >> \o SplitLines(SubSeq(t, b + 1, Len(t)))

\* the lines of a file: an empty file has none
FileLines(t) == IF t = << >> THEN << >> ELSE SplitLines(t)

IsDigit(c) == c \in {"0", "1", "2", "3", "4", "5", "6", "7", "8", "9"}

DigitValue(c) == CHOOSE d \in 0 .. 9 : Digit(d) = c

RECURSIVE ParseNat(_)
\* the number a non-empty sequence of digits denotes
ParseNat(ds) ==
    IF Len(ds) = 1 THEN DigitValue(ds[1])
    ELSE 10 * ParseNat(SubSeq(ds, 1, Len(ds) - 1)) + DigitValue(ds[Len(ds)])

\* line starts with the decimal number addr, a colon and a space
HasAddressPrefix(line, addr) ==
    \E pos \in 2 .. (Len(line) - 1) :
        /\ \A j \in 1 .. (pos - 1) : IsDigit(line[j])
        /\ line[pos] = ":"
        /\ line[pos + 1] = " "
        /\ ParseNat(SubSeq(line, 1, pos - 1)) = addr

(* C10: for an image of 0 to 32 bytes, a listing that was written holds    *)
(* exactly loaded size / 2 lines, line k carries the address prefix 2k,    *)
(* the lines are separated by single line breaks (no line is empty) and    *)
(* no line break follows the last line.                                    *)
C10_ListingLines ==
    (SmallImage /\ asm_state = "written") =>
        LET ls == FileLines(listing)
        IN  /\ Len(ls) = loaded_mem_slots \div 2
            /\ \A k \in 1 .. Len(ls) :
                  /\ ls[k] # << >>
                  /\ HasAddressPrefix(ls[k], 2 * (k - 1))
            /\ listing # << >> => listing[Len(listing)] # "\n"

\* a listing of 16 lines, the last address having two digits
C10_Witness ==
    /\ asm_state = "written"
    /\ Len(image) = MEM_BYTE_SIZE
    /\ Len(FileLines(listing)) = 16
    /\ HasAddressPrefix(FileLines(listing)[16], 30)

(***************************************************************************)
(* Properties of single instructions.  ir is the word executed last, at    *)
(* address fetch_at, on the registers reg_before.                          *)
(***************************************************************************)
\* the 4-bit field of word w whose lowest bit is bit low
Field4(w, low) == (w \div Pow2(low)) % 16

(* C3 as stated: a BLT whose address field is odd fails and leaves PC at   *)
(* the fetch address plus 2, whatever the two registers hold.              *)
C3_OddAddressAlwaysFails ==
    (fetches > 0 /\ TopThreeBits(ir) = 7 /\ ir % 2 = 1)
        => (handler_rc = ERROR /\ pc = fetch_at + 2)

(* C4: a BLT Ri, Rj, addr with an even addr reports success and changes no *)
(* register; PC is addr when reg[Ri] < reg[Rj] as unsigned 8-bit values    *)
(* and the fetch address plus 2 otherwise.                                 *)
C4_BltEvenAddress ==
    (fetches > 0 /\ TopThreeBits(ir) = 7 /\ ir % 2 = 0)
        => /\ handler_rc = SUCCESS
           /\ reg = reg_before
           /\ pc = IF reg_before[Field4(ir, 9)] < reg_before[Field4(ir, 5)]
                   THEN ir % 32
                   ELSE fetch_at + 2

\* BLT R0 R3 0 at address 4 with reg[0] = 1, reg[3] = 5: the branch is taken
C4_Witness ==
    /\ ir = 57440
    /\ fetch_at = 4
    /\ reg_before[0] = 1
    /\ reg_before[3] = 5
    /\ pc = 0
    /\ handler_rc = SUCCESS

\* bit k of the byte x
BitOf(x, k) == (x \div Pow2(k)) % 2

\* the byte whose bit k is f[k]
ByteOfBits(f) ==
    f[0] + 2 * f[1] + 4 * f[2] + 8 * f[3] + 16 * f[4] + 32 * f[5] + 64 * f[6] + 128 * f[7]

\* what opcode op computes from the bytes x and y
BitOpResult(op, x, y) ==
    CASE op = 1 -> (x + y) % 256
      [] op = 2 -> ByteOfBits([k \in 0 .. 7 |-> BitOf(x, k) * BitOf(y, k)])
      [] op = 3 -> ByteOfBits([k \in 0 .. 7 |->
                        IF BitOf(x, k) + BitOf(y, k) > 0 THEN 1 ELSE 0])
      [] op = 4 -> ByteOfBits([k \in 0 .. 7 |-> (BitOf(x, k) + BitOf(y, k)) % 2])

(* C7: a word with opcode 1..4 writes reg[a] op reg[b] into reg[c], a the  *)
(* field at bits 12..9, b at bits 8..5, c at bits 4..1; op is addition     *)
(* modulo 256, AND, OR, XOR for opcodes 1, 2, 3, 4; no other register      *)
(* changes and the handler reports success.                                *)
C7_BitOpResult ==
    (fetches > 0 /\ TopThreeBits(ir) \in 1 .. 4)
        => /\ handler_rc = SUCCESS
           /\ reg = [reg_before EXCEPT ![Field4(ir, 1)] =
                        BitOpResult(TopThreeBits(ir), reg_before[Field4(ir, 9)],
                                    reg_before[Field4(ir, 5)])]

\* ADD R0 R3 R10 with reg[0] = 250 and reg[3] = 10 leaves 4 in reg[10]
C7_Witness ==
    /\ ir = 8308
    /\ fetch_at = 4
    /\ reg_before[0] = 250
    /\ reg_before[3] = 10
    /\ reg[10] = 4
    /\ handler_rc = SUCCESS

\* ds is the decimal numeral of n: digits only, no leading zero
IsNumeralOf(ds, n) ==
    /\ Len(ds) > 0
    /\ \A j \in 1 .. Len(ds) : IsDigit(ds[j])
    /\ Len(ds) > 1 => ds[1] # "0"
    /\ ParseNat(ds) = n

\* text is "LDI R<r> <v>" with r and v in decimal
IsLdiText(text, r, v) ==
    \E sp \in 7 .. (Len(text) - 1) :
        /\ SubSeq(text, 1, 5) = <<"L", "D", "I", " ", "R">>
        /\ IsNumeralOf(SubSeq(text, 6, sp - 1), r)
        /\ text[sp] = " "
        /\ IsNumeralOf(SubSeq(text, sp + 1, Len(text)), v)

\* the text of listing line k after the address prefix
ListingText(k) ==
    LET line == FileLines(listing)[k]
        colon == CHOOSE j \in 1 .. Len(line) : line[j] = ":"
    IN  SubSeq(line, colon + 2, Len(line))

(* C8: for an LDI word with register field Ri (bits 12..9) and immediate   *)
(* imm (bits 8..1) the listing text is "LDI R<Ri> <imm>" in decimal, and   *)
(* executing the word sets reg[Ri] to imm and changes no other register.   *)
C8_LdiRoundTrip ==
    (fetches > 0 /\ TopThreeBits(ir) = 0 /\ (fetch_at \div 2) + 1 <= Len(dis_ops))
        => LET ri == Field4(ir, 9)
               imm == (ir \div 2) % 256
           IN  /\ IsLdiText(ListingText((fetch_at \div 2) + 1), ri, imm)
               /\ handler_rc = SUCCESS
               /\ reg = [reg_before EXCEPT ![ri] = imm]

\* the word LDI R3 200 is listed as "LDI R3 200" and leaves 200 in reg[3]
C8_Witness ==
    /\ ir = 1936
    /\ fetch_at = 4
    /\ ListingText(3) = <<"L", "D", "I", " ", "R", "3", " ", "2", "0", "0">>
    /\ reg_before[3] # 200
    /\ reg[3] = 200

(***************************************************************************)
(* Properties of the stages of a run                                       *)
(***************************************************************************)
\* start() is in its call of disassemble_micro_program and the call ends
DisassemblyStep ==
    stage = "ready" /\ stage' \in {"loaded", "load_failed", "crashed"}

ExecutionStep == stage \in {"loaded", "running"} /\ fetches' = fetches + 1

(* C12: during execution no instruction, whatever its opcode and whatever  *)
(* is entered, changes a memory byte or the loaded-size counter.           *)
C12_ExecutionKeepsMemory ==
    [][ExecutionStep => (mem' = mem /\ loaded_mem_slots' = loaded_mem_slots)]_vars

\* a run of three or more instructions that read the value 7 into reg[1]
C12_Witness ==
    /\ stage = "executed"
    /\ fetches >= 3
    /\ reg[1] = 7
    /\ mem[0] = 194
    /\ loaded_mem_slots = Len(image)

\* start() has returned
Returned == stage \in {"returned", "exited"}

(* C13 as stated: when a stage of the run aborted with a failure, start    *)
(* returns a failure status and the exit status of the process is not      *)
(* zero; a success status is returned only when every stage succeeded.     *)
C13_FailureStatus ==
    /\ (Returned /\ aborted # {}) => result # SUCCESS
    /\ (stage = "exited" /\ aborted # {}) => exit_status # 0

(* C14 as stated: when the listing file could not be opened or a write to  *)
(* it failed, disassemble_micro_program returns a result that is not       *)
(* SUCCESS.                                                                *)
C14_ListingFailureReported ==
    (stage = "loaded" /\ asm_state \in {"open_failed", "write_failed"})
        => result # SUCCESS

(* C15: once a handler has reported an error no further instruction is    *)
(* fetched or executed, execute_micro_program has returned ERROR, and the  *)
(* registers, the memory and PC keep the values they had when the failing  *)
(* handler returned: PC stays at the fetch address plus 2.                 *)
C15_ErrorHaltsAtOnce ==
    /\ [](handler_rc # SUCCESS =>
            /\ stage \in {"executed", "returned", "exited"}
            /\ "execute" \in aborted
            /\ stage = "executed" => result = ERROR
            /\ pc = fetch_at + 2)
    /\ [][handler_rc # SUCCESS =>
            /\ fetches' = fetches
            /\ handler_rc' = handler_rc
            /\ reg' = reg
            /\ mem' = mem
            /\ pc' = pc
            /\ ir' = ir]_vars

\* a BLT failed before the end of the program and the process has exited
C15_Witness ==
    /\ handler_rc = ERROR
    /\ op_code = 7
    /\ stage = "exited"
    /\ pc < loaded_mem_slots
    /\ fetches = 2

\* the order in which start() calls the stages
StageOrder ==
    << "create_microputer", "create_instruction_set", "disassemble_micro_program",
       "execute_micro_program", "delete_microputer" >>

\* how often f occurs in calls
TimesCalled(f) == Cardinality({i \in 1 .. Len(calls) : calls[i] = f})

(* C16: the stages are called in the order create, load/disassemble,       *)
(* execute, teardown, none of them twice and none before the one it        *)
(* follows; execute is never called after the load failed; and             *)
(* delete_microputer has been called exactly once when start() returns     *)
(* after a successful create, also after an execution failure: after a     *)
(* failed load or the end of execution it is the call start() makes next.  *)
C16_StageOrder ==
    /\ \A i \in 1 .. Len(calls) :
          \/ calls[i] = StageOrder[i]
          \/ i = Len(calls) /\ calls[i] = "delete_microputer"
    /\ \A f \in {StageOrder[k] : k \in 1 .. 5} : TimesCalled(f) <= 1
    /\ "load" \in aborted => TimesCalled("execute_micro_program") = 0
    /\ (Returned /\ "create" \notin aborted) => TimesCalled("delete_microputer") = 1
    /\ stage \in {"load_failed", "executed"} =>
          /\ TimesCalled("delete_microputer") = 0
          /\ ENABLED DeleteMicroputer
    /\ Returned <=> TimesCalled("delete_microputer") = 1

\* start() returned after an instruction failed: all five calls were made
C16_Witness ==
    /\ stage = "returned"
    /\ "execute" \in aborted
    /\ calls = StageOrder

(***************************************************************************)
(* Properties of the load                                                  *)
(***************************************************************************)
(* C17 as stated: for an image of any length the load stores bytes only at *)
(* the offsets 0..31 of the memory, and the loaded size is the smaller of  *)
(* the image length and 32.                                                *)
C17_LoadWithinMemory ==
    stage = "loaded" =>
        /\ stored \subseteq 0 .. (MEM_BYTE_SIZE - 1)
        /\ loaded_mem_slots = IF Len(image) < MEM_BYTE_SIZE THEN Len(image)
                                                            ELSE MEM_BYTE_SIZE

(***************************************************************************)
(* Properties of the listing text                                          *)
(***************************************************************************)
\* the register operand R<index>
RegText(index) == <<"R">> \o Dec(index)

\* the mnemonic of word w followed by every operand of its layout in full
FullLine(w) ==
    LET op == TopThreeBits(w)
    IN  CASE op = 0 ->
               <<"L", "D", "I", " ">> \o RegText(Field4(w, 9)) \o <<" ">>
                   \o Dec((w \div 2) % 256)
          [] op \in 1 .. 4 ->
               (CASE op = 1 -> <<"A", "D", "D">> [] op = 2 -> <<"A", "N", "D">>
                  [] op = 3 -> <<"O", "R">> [] op = 4 -> <<"X", "O", "R">>)
                   \o <<" ">> \o RegText(Field4(w, 9)) \o <<" ">> \o RegText(Field4(w, 5))
                   \o <<" ">> \o RegText(Field4(w, 1))
          [] op = 5 -> <<"P", "R", "T", " ">> \o RegText(Field4(w, 9))
          [] op = 6 -> <<"R", "D", "D", " ">> \o RegText(Field4(w, 9))
          [] op = 7 ->
               <<"B", "L", "T", " ">> \o RegText(Field4(w, 9)) \o <<" ">>
                   \o RegText(Field4(w, 5)) \o <<" ">> \o Dec(w % 32)

(* C18 as stated: every listing line is the mnemonic of its word followed  *)
(* by every operand rendered in full; the line width cuts nothing off.     *)
C18_OperandsInFull ==
    asm_state = "written" =>
        \A k \in 1 .. Len(dis_ops) : ListingText(k) = FullLine(ImageWord(k))

(***************************************************************************)
(* Properties of PRT, RDD and of the fetch                                 *)
(***************************************************************************)
\* text is the line "R<r> = <v>" with r and v in decimal
IsPrtLine(text, r, v) ==
    \E n1 \in 1 .. 2 : \E n2 \in 1 .. 3 :
        /\ Len(text) = n1 + n2 + 5
        /\ text[1] = "R"
        /\ IsNumeralOf(SubSeq(text, 2, n1 + 1), r)
        /\ SubSeq(text, n1 + 2, n1 + 4) = <<" ", "=", " ">>
        /\ IsNumeralOf(SubSeq(text, n1 + 5, n1 + n2 + 4), v)
        /\ text[Len(text)] = "\n"

(* C19: executing PRT Ri changes no register and no memory byte, leaves PC *)
(* at the fetch address plus 2 and prints the value reg[Ri] holds;         *)
(* executing RDD Ri with the entered value v sets reg[Ri] to v mod 256 and *)
(* changes no other register, no memory byte and leaves PC at the fetch    *)
(* address plus 2.  Both report success.                                   *)
C19_PrtAndRdd ==
    [][ExecutionStep =>
        /\ TopThreeBits(ir') = 5 =>
              /\ reg' = reg
              /\ mem' = mem
              /\ pc' = pc + 2
              /\ IsPrtLine(console', Field4(ir', 9), reg[Field4(ir', 9)])
              /\ handler_rc' = SUCCESS
        /\ TopThreeBits(ir') = 6 =>
              /\ reg' = [reg EXCEPT ![Field4(ir', 9)] = rdd_input' % 256]
              /\ mem' = mem
              /\ pc' = pc + 2
              /\ handler_rc' = SUCCESS]_vars

\* RDD R15 with 300 entered leaves 44 in reg[15]
C19_Witness ==
    /\ ir = 56832
    /\ fetch_at = 4
    /\ rdd_input = 300
    /\ reg[15] = 44
    /\ pc = 6

(* C20: each fetch loads IR with 256 * mem[PC] + mem[PC + 1] and advances  *)
(* PC by 2 before the handler runs: after an instruction of opcode 0..6    *)
(* PC is the fetch address plus 2, and after a BLT it is the fetch         *)
(* address plus 2 unless the branch was taken to the address field.        *)
C20_FetchAdvancesBeforeDispatch ==
    [][ExecutionStep =>
        /\ ir' = 256 * mem[pc] + mem[pc + 1]
        /\ fetch_at' = pc
        /\ TopThreeBits(ir') \in 0 .. 6 => pc' = pc + 2
        /\ TopThreeBits(ir') = 7 =>
              pc' = IF reg[Field4(ir', 9)] < reg[Field4(ir', 5)] /\ ir' % 2 = 0
                    THEN ir' % 32
                    ELSE pc + 2]_vars

\* a BLT at address 4 was taken to address 30
C20_Witness ==
    /\ fetches = 3
    /\ fetch_at = 4
    /\ ir = 256 * mem[4] + mem[5]
    /\ TopThreeBits(ir) = 7
    /\ ir % 32 = 30
    /\ pc = 30

(***************************************************************************)
(* Properties of the error paths and of the resources                      *)
(***************************************************************************)
(* C21: the handlers of LDI, ADD, AND, OR, XOR, PRT and RDD always report  *)
(* success, the default branch of bit_op_handler is never taken, and an    *)
(* error is reported by BLT only.                                          *)
C21_OnlyBltFails ==
    /\ []((fetches > 0 /\ TopThreeBits(ir) \in 0 .. 6) => handler_rc = SUCCESS)
    /\ [](handler_rc # SUCCESS => (op_code = 7 /\ TopThreeBits(ir) = 7))
    /\ [][ExecutionStep /\ instr_set[TopThreeBits(ir')].handler = "bit_op_handler"
            => (TopThreeBits(ir') \in 1 .. 4 /\ handler_rc' = SUCCESS)]_vars

\* an XOR word with its unused bit set was executed and reported success
C21_Witness ==
    /\ fetches = 3
    /\ TopThreeBits(ir) = 4
    /\ ir % 2 = 1
    /\ handler_rc = SUCCESS

\* disassemble_micro_program has returned
DisassembleReturned == stage \in {"loaded", "load_failed"}

(* C22 as stated: no stdio call is made on a FILE pointer whose fopen      *)
(* failed; when the binary file or the listing could not be opened the     *)
(* step returns an error; and whatever the step acquired is released when  *)
(* it returns.                                                             *)
C22_FailedHandleUntouched ==
    /\ null_handle_ops = {}
    /\ (DisassembleReturned /\ (stage = "load_failed" \/ asm_state = "open_failed"))
          => result = ERROR
    /\ DisassembleReturned => held = {}

(* C23 as stated: for an image of up to 16 words the slot of every         *)
(* disassembled line k, the bytes k * MAX_ASM_LINE_LEN up to               *)
(* (k + 1) * MAX_ASM_LINE_LEN, lies inside the allocated line buffer, and  *)
(* so does every byte the disassemblers wrote.                             *)
C23_LinesInsideBuffer ==
    SmallImage =>
        /\ \A k \in 0 .. (Len(dis_ops) - 1) :
              (k + 1) * MAX_ASM_LINE_LEN <= AsmBufferBytes
        /\ line_end <= AsmBufferBytes

(***************************************************************************)
(* Properties of the memory and register accesses and of termination       *)
(***************************************************************************)
(* C24: for an image of 0 to 32 bytes every fetch reads the memory at PC   *)
(* and PC + 1, both within 0..31, and the handler of the fetched word      *)
(* accesses registers at indices within 0..15 only.                        *)
C24_AccessesInRange ==
    (SmallImage /\ fetches > 0) =>
        /\ fetch_at \in 0 .. (MEM_BYTE_SIZE - 1)
        /\ fetch_at + 1 \in 0 .. (MEM_BYTE_SIZE - 1)
        /\ RegIndices(ir) \subseteq 0 .. (NUM_REGISTERS - 1)

\* the last word of a 32-byte image was fetched
C24_Witness ==
    /\ Len(image) = MEM_BYTE_SIZE
    /\ fetches > 0
    /\ fetch_at = MEM_BYTE_SIZE - 2
    /\ pc = MEM_BYTE_SIZE

\* every BLT among the instructions of the loaded image, the words the
\* listing shows, has an address field greater than its own address
ForwardBranchesOnly ==
    \A k \in 1 .. Len(dis_ops) :
        TopThreeBits(ImageWord(k)) = 7 => ImageWord(k) % 32 > 2 * (k - 1)

\* max(1, loaded size / 2 rounded up)
FetchBound == IF loaded_mem_slots <= 2 THEN 1 ELSE (loaded_mem_slots + 1) \div 2

(* C25 as stated: when every BLT of the loaded image branches forward, PC  *)
(* grows with every instruction and execution halts after at most          *)
(* max(1, loaded size / 2 rounded up) fetches.                             *)
C25_ForwardBranchesHalt ==
    (SmallImage /\ ForwardBranchesOnly) =>
        /\ fetches <= FetchBound
        /\ fetches > 0 => pc > fetch_at

=============================================================================
